---- MODULE Spec2Model ----
(***************************************************************************)
(* ws2wh gateway: the upgrade handler (Server.handle), the reply handler   *)
(* (Server.send) and the session registry (Server.sessions) of             *)
(* server/server.go, with the session and connection-handle operations     *)
(* they call.  Every flow is a goroutine; a step of the model is one       *)
(* statement (or one half of a map access) of one goroutine.               *)
(***************************************************************************)
EXTENDS Integers, Sequences, FiniteSets, TLC

\* ------------------------------------------------------------------ bounds
MaxSessions == 2        \* upgrade requests (handler instances) in a run
MaxCalls == 2           \* reply calls in a run

\* --------------------------------------------------------------- constants
StatusNotFound == 404
StatusOK == 200
Nil == 0                \* the nil *session.Session

Handlers == 1..MaxSessions          \* upgrade requests; also the session objects
Ids == 1..MaxSessions               \* identifiers uuid.NewString() can return
Targets == Ids                      \* the :id part of a reply path
Calls == 1..MaxCalls
Bodies == {<<>>, <<112>>}           \* request bodies: empty, non-empty

NotFoundBody == [success |-> FALSE, message |-> "NOT_FOUND"]
OkBody == [success |-> TRUE, message |-> ""]

VARIABLES
    sessions,   \* the registry: identifier -> session object or Nil
    sid,        \* session object -> its identifier (Nil before creation)
    state,      \* session object -> lifecycle state
    link,       \* connection of a handler: "none", "up", "down"
    closes,     \* physical closes of each connection handle
    written,    \* frames written to each connection
    hpc,        \* position of each upgrade handler
    rpc,        \* position of each Receive goroutine
    inserts,    \* registry insertions performed per handler
    removals,   \* registry removals performed per handler
    calls,      \* the reply calls
    crashed,    \* the runtime threw a fatal error
    addr,       \* one reply address: configured, advertised, posted to
    regop       \* one registry operation: its input and its result

vars == <<sessions, sid, state, link, closes, written, hpc, rpc,
          inserts, removals, calls, crashed, addr, regop>>

\* ------------------------------------------------------------ pure helpers

\* uuid.NewString(): an identifier never returned before.
NewString(used) == CHOOSE i \in Ids : i \notin used /\ \A j \in Ids : j < i => j \in used

\* A lookup that ignores the key and returns whichever session is registered.
LookupAny(reg, id) ==
    IF \E i \in DOMAIN reg : reg[i] # Nil
    THEN reg[CHOOSE i \in DOMAIN reg : reg[i] # Nil /\ \A j \in DOMAIN reg : reg[j] # Nil => i <= j]
    ELSE Nil

\* s.sessions[id]: the zero value (nil) for a missing key.
Lookup(reg, id) == reg[id]

\* s.sessions[id] = session
MapAssign(reg, id, obj) == [reg EXCEPT ![id] = obj]

\* A removal that leaves the entry in place.
MapDeleteNothing(reg, id) == reg

\* delete(s.sessions, id)
MapDelete(reg, id) == [reg EXCEPT ![id] = Nil]

\* echo's c.JSON(code, body): the status line is committed by the first call,
\* a later call only appends its body to the same response.
JSON(resp, code, body) ==
    [status |-> IF resp.status = 0 THEN code ELSE resp.status,
     bodies |-> Append(resp.bodies, body)]

\* The connection can no longer be read: the peer is gone or the handle closed.
Over(h) == link[h] # "up" \/ closes[h] > 0

UsedIds == {sid[h] : h \in Handlers} \ {Nil}

IdleCall ==
    [pc |-> "idle", id |-> Nil, body |-> <<>>, term |-> FALSE, sess |-> Nil,
     resp |-> [status |-> 0, bodies |-> <<>>],
     sent |-> "no", closed |-> "no",
     afterClosed |-> FALSE, afterTerm |-> FALSE]

\* ---------------------------------------------------------- map data race

Writing(h) == hpc[h] \in {"inserting", "deleting"}
ReadingH(h) == hpc[h] = "reading"
ReadingC(c) == calls[c].pc = "lookup"

\* Two goroutines are inside the map at once and one of them writes.
Race ==
    \E h \in Handlers : /\ Writing(h)
                        /\ \/ \E g \in Handlers \ {h} : Writing(g) \/ ReadingH(g)
                           \/ \E c \in Calls : ReadingC(c)

\* ------------------------------------------------------------------- Init

\* The state after process exit: no registry, no connection, no goroutine.
Exited ==
    /\ sessions' = [i \in Targets |-> Nil]
    /\ sid' = [h \in Handlers |-> Nil]
    /\ state' = [h \in Handlers |-> "None"]
    /\ link' = [h \in Handlers |-> "none"]
    /\ closes' = [h \in Handlers |-> 0]
    /\ written' = [h \in Handlers |-> <<>>]
    /\ hpc' = [h \in Handlers |-> "exited"]
    /\ rpc' = [h \in Handlers |-> "exited"]
    /\ inserts' = [h \in Handlers |-> 0]
    /\ removals' = [h \in Handlers |-> 0]
    /\ calls' = [c \in Calls |-> [IdleCall EXCEPT !.pc = "exited"]]
    /\ crashed' = TRUE
    /\ UNCHANGED <<addr, regop>>

\* No reply address and no registry operation is under way.
AddrOff == [pc |-> "off"]
RegOff == [pc |-> "off"]

\* The server's state after CreateServer.
ServerInit ==
    /\ sessions = [i \in Targets |-> Nil]
    /\ sid = [h \in Handlers |-> Nil]
    /\ state = [h \in Handlers |-> "None"]
    /\ link = [h \in Handlers |-> "none"]
    /\ closes = [h \in Handlers |-> 0]
    /\ written = [h \in Handlers |-> <<>>]
    /\ hpc = [h \in Handlers |-> "idle"]
    /\ rpc = [h \in Handlers |-> "none"]
    /\ inserts = [h \in Handlers |-> 0]
    /\ removals = [h \in Handlers |-> 0]
    /\ calls = [c \in Calls |-> IdleCall]
    /\ crashed = FALSE

Init == ServerInit /\ addr = AddrOff /\ regop = RegOff

\* ------------------------------------------------ Server.handle (upgrade)

\* Lines 83-86, up to the start of the map write: the identifier is
\* generated and the map assignment is entered.
HandleStart(h) ==
    /\ ~crashed
    /\ hpc[h] = "idle"
    /\ \A g \in Handlers : g < h => hpc[g] # "idle"
    /\ sid' = [sid EXCEPT ![h] = NewString(UsedIds)]
    /\ link' = [link EXCEPT ![h] = "up"]
    /\ hpc' = [hpc EXCEPT ![h] = "inserting"]
    /\ UNCHANGED <<addr, regop, sessions, state, closes, written, rpc, inserts, removals,
                   calls, crashed>>

\* Line 86 completes: the constructed session is stored under its identifier.
\* Line 93 registers the deferred removal; line 95 enters its map read.
InsertEnd(h) ==
    /\ ~crashed
    /\ hpc[h] = "inserting"
    /\ sessions' = MapAssign(sessions, sid[h], h)
    /\ state' = [state EXCEPT ![h] = "Open"]
    /\ inserts' = [inserts EXCEPT ![h] = @ + 1]
    /\ hpc' = [hpc EXCEPT ![h] = "reading"]
    /\ UNCHANGED <<addr, regop, sid, link, closes, written, rpc, removals, calls, crashed>>

\* An upgrade handler that serves the connection without starting Receive.
SpawnNothing(h) ==
    /\ ~crashed
    /\ hpc[h] = "reading"
    /\ hpc' = [hpc EXCEPT ![h] = "serving"]
    /\ UNCHANGED <<addr, regop, sessions, sid, state, link, closes, written, rpc,
                   inserts, removals, calls, crashed>>

\* Line 95: go s.sessions[id].Receive(); then line 96 starts serving.
\* Receive on a nil session dereferences nil in a goroutine of its own,
\* which no middleware recovers: the process exits.
Spawn(h) ==
    /\ ~crashed
    /\ hpc[h] = "reading"
    /\ LET obj == Lookup(sessions, sid[h]) IN
         IF obj = Nil
         THEN Exited
         ELSE /\ rpc' = [rpc EXCEPT ![obj] = "running"]
              /\ hpc' = [hpc EXCEPT ![h] = "serving"]
              /\ UNCHANGED <<addr, regop, sessions, sid, state, link, closes, written, inserts,
                             removals, calls, crashed>>

\* Line 96 returns: handler.Handle serves the connection until it is over.
\* Line 97 returns and the deferred delete of line 93 enters its map write.
HandleReturn(h) ==
    /\ ~crashed
    /\ hpc[h] = "serving"
    /\ Over(h)
    /\ hpc' = [hpc EXCEPT ![h] = "deleting"]
    /\ UNCHANGED <<addr, regop, sessions, sid, state, link, closes, written, rpc, inserts,
                   removals, calls, crashed>>

\* Line 93, deferred: delete(s.sessions, id) completes.
DeleteEnd(h) ==
    /\ ~crashed
    /\ hpc[h] = "deleting"
    /\ sessions' = MapDelete(sessions, sid[h])
    /\ removals' = [removals EXCEPT ![h] = @ + 1]
    /\ hpc' = [hpc EXCEPT ![h] = "done"]
    /\ UNCHANGED <<addr, regop, sid, state, link, closes, written, rpc, inserts, calls, crashed>>

\* ------------------------------------------------------ the client's side

\* The client disconnects, or reading from the connection fails.
ConnectionLost(h) ==
    /\ ~crashed
    /\ hpc[h] = "serving"
    /\ ~Over(h)
    /\ link' = [link EXCEPT ![h] = "down"]
    /\ UNCHANGED <<addr, regop, sessions, sid, state, closes, written, hpc, rpc, inserts,
                   removals, calls, crashed>>

\* --------------------------------------------------------- Session.Receive

\* Receive returns once the connection is over.  On a read error or the
\* client's close it takes the session from Open through Closing to Closed
\* and closes the handle; when Close() already took the session out of Open
\* it only returns.
ReceiveReturn(h) ==
    /\ ~crashed
    /\ rpc[h] = "running"
    /\ Over(h)
    /\ IF state[h] = "Open"
       THEN /\ closes' = [closes EXCEPT ![h] = @ + 1]
            /\ state' = [state EXCEPT ![h] = "Closed"]
       ELSE UNCHANGED <<closes, state>>
    /\ rpc' = [rpc EXCEPT ![h] = "returned"]
    /\ UNCHANGED <<addr, regop, sessions, sid, link, written, hpc, inserts, removals, calls,
                   crashed>>

\* ----------------------------------------------------- Session.Send, Close

\* Session.Send: the frame is written when the session is Open and its
\* connection usable; any other case is a write failure returned to the caller.
SendOutcome(o) == IF state[o] = "Open" /\ ~Over(o) THEN "ok" ELSE "failed"

\* A Close that closes the handle again on every call.
CloseNeverNoop(o) == FALSE

\* Session.Close is idempotent: only the call that takes the session out of
\* Open closes the handle.
CloseIsNoop(o) == state[o] # "Open"

\* --------------------------------------------------- Server.send (reply)

\* A session closed by its client's disconnect, as seen when a call starts.
ClosedByDisconnect(id) ==
    \E h \in Handlers : /\ sid[h] = id
                        /\ link[h] = "down"
                        /\ state[h] = "Closed"
                        /\ rpc[h] = "returned"

\* A termination directive for this identifier, processed for an Open
\* session, has been acknowledged.
TerminationAcked(id) ==
    \E d \in Calls : /\ calls[d].pc = "done"
                     /\ calls[d].id = id
                     /\ calls[d].term
                     /\ calls[d].closed \in {"ok", "err"}

\* An acknowledgment that reports a failed Send or Close to the backend.
AcknowledgeUnlessFailed(call) ==
    IF call.sent = "failed" \/ call.closed = "err"
    THEN JSON(call.resp, 500, [success |-> FALSE, message |-> "FAILED"])
    ELSE JSON(call.resp, StatusOK, OkBody)

\* Line 122: return c.JSON(http.StatusOK, SessionResponse{Success: true})
Acknowledge(call) == JSON(call.resp, StatusOK, OkBody)

Finish(call) == [call EXCEPT !.pc = "done", !.resp = Acknowledge(call)]

\* Lines 114-115 on a nil session: Close() on nil panics.  The Recover
\* middleware of line 57 ends the handler and writes nothing to a response
\* that is already committed.  Without the header the handler reaches line 122.
CloseOnNil(call) ==
    IF call.term
    THEN [call EXCEPT !.pc = "panicked", !.closed = "nil"]
    ELSE Finish(call)

\* Lines 110-112 on a nil session: Send(body) on nil panics in the same way.
SendOnNil(call) ==
    IF Len(call.body) > 0
    THEN [call EXCEPT !.pc = "panicked", !.sent = "nil"]
    ELSE CloseOnNil(call)

\* A handler that also closes the session when Send has failed.
ToCloseOnFailure(call) ==
    IF call.term \/ call.sent = "failed" THEN [call EXCEPT !.pc = "close"] ELSE Finish(call)

\* Line 114 for a session that was found: the header decides between
\* Close() and the acknowledgment.
ToClose(call) == IF call.term THEN [call EXCEPT !.pc = "close"] ELSE Finish(call)

\* A handler that closes in place of delivering when the header is present.
ToSendUnlessTerminated(call) ==
    IF call.term THEN [call EXCEPT !.pc = "close"]
    ELSE IF Len(call.body) > 0 THEN [call EXCEPT !.pc = "send"] ELSE Finish(call)

\* A handler that sends the body whether or not it is empty.
ToSendAlways(call) == [call EXCEPT !.pc = "send"]

\* Line 110 for a session that was found.
ToSend(call) == IF Len(call.body) > 0 THEN [call EXCEPT !.pc = "send"] ELSE ToClose(call)

\* Lines 104-108 and what follows them without touching shared state: a nil
\* session writes the not-found response and the handler goes on to line 110.
LookedUp(call, obj) ==
    IF obj = Nil
    THEN SendOnNil([call EXCEPT !.sess = Nil,
                                !.resp = JSON(call.resp, StatusNotFound, NotFoundBody)])
    ELSE ToSend([call EXCEPT !.sess = obj])

\* Lines 101-104, up to the start of the map read.
ReplyStart(c) ==
    /\ ~crashed
    /\ calls[c].pc = "idle"
    /\ \A d \in Calls : d < c => calls[d].pc # "idle"
    /\ \E id \in Targets, body \in Bodies, term \in BOOLEAN :
         calls' = [calls EXCEPT ![c] =
                     [@ EXCEPT !.pc = "lookup", !.id = id, !.body = body,
                               !.term = term,
                               !.afterClosed = ClosedByDisconnect(id),
                               !.afterTerm = TerminationAcked(id)]]
    /\ UNCHANGED <<addr, regop, sessions, sid, state, link, closes, written, hpc, rpc, inserts,
                   removals, crashed>>

\* Line 104: the map read completes.
ReplyLookup(c) ==
    /\ ~crashed
    /\ calls[c].pc = "lookup"
    /\ calls' = [calls EXCEPT ![c] = LookedUp(calls[c], Lookup(sessions, calls[c].id))]
    /\ UNCHANGED <<addr, regop, sessions, sid, state, link, closes, written, hpc, rpc, inserts,
                   removals, crashed>>

\* Line 111: session.Send(body) on the session found; its result is dropped.
ReplySend(c) ==
    /\ ~crashed
    /\ calls[c].pc = "send"
    /\ LET call == calls[c]  o == calls[c].sess IN
         /\ calls' = [calls EXCEPT ![c] =
                        ToClose([call EXCEPT !.sent = SendOutcome(o)])]
         /\ written' = IF SendOutcome(o) = "ok"
                       THEN [written EXCEPT ![o] =
                               Append(@, [to |-> call.id, body |-> call.body])]
                       ELSE written
    /\ UNCHANGED <<addr, regop, sessions, sid, state, link, closes, hpc, rpc, inserts, removals,
                   crashed>>

\* Line 115: session.Close() is entered on the session found.
ReplyClose(c) ==
    /\ ~crashed
    /\ calls[c].pc = "close"
    /\ LET call == calls[c]  o == calls[c].sess IN
         IF CloseIsNoop(o)
         THEN /\ calls' = [calls EXCEPT ![c] = Finish([call EXCEPT !.closed = "noop"])]
              /\ UNCHANGED state
         ELSE /\ calls' = [calls EXCEPT ![c] = [call EXCEPT !.pc = "closing"]]
              /\ state' = [state EXCEPT ![o] = "Closing"]
    /\ UNCHANGED <<addr, regop, sessions, sid, link, closes, written, hpc, rpc, inserts, removals,
                   crashed>>

\* A reply handler that removes the session itself after closing it, on top
\* of the upgrade handler's deferred removal.
ReplyCloseEndRemoving(c) ==
    /\ ~crashed
    /\ calls[c].pc = "closing"
    /\ LET o == calls[c].sess IN
         /\ closes' = [closes EXCEPT ![o] = @ + 1]
         /\ state' = [state EXCEPT ![o] = "Closed"]
         /\ sessions' = MapDelete(sessions, calls[c].id)
         /\ removals' = [removals EXCEPT ![o] = @ + 1]
    /\ \E res \in {"ok", "err"} :
         calls' = [calls EXCEPT ![c] = Finish([calls[c] EXCEPT !.closed = res])]
    /\ UNCHANGED <<addr, regop, sid, link, written, hpc, rpc, inserts, crashed>>

\* Lines 115-122: Close() closes the handle and returns, with an error or
\* without; the error is logged and the call acknowledged.
ReplyCloseEnd(c) ==
    /\ ~crashed
    /\ calls[c].pc = "closing"
    /\ LET o == calls[c].sess IN
         /\ closes' = [closes EXCEPT ![o] = @ + 1]
         /\ state' = [state EXCEPT ![o] = "Closed"]
    /\ \E res \in {"ok", "err"} :
         calls' = [calls EXCEPT ![c] = Finish([calls[c] EXCEPT !.closed = res])]
    /\ UNCHANGED <<addr, regop, sessions, sid, link, written, hpc, rpc, inserts, removals, crashed>>

\* ------------------------------------------------------------ fatal error

\* The Go runtime may detect an unsynchronised map access that overlaps a map
\* write and throw ("concurrent map read and map write", "concurrent map
\* writes"): the process exits, and with it the registry, every connection
\* and every handler.
FatalThrow ==
    /\ ~crashed
    /\ Race
    /\ Exited

\* ------------------------------------------------------------------- Next

Next ==
    \/ \E h \in Handlers : HandleStart(h)
    \/ \E h \in Handlers : InsertEnd(h)
    \/ \E h \in Handlers : Spawn(h)
    \/ \E h \in Handlers : HandleReturn(h)
    \/ \E h \in Handlers : DeleteEnd(h)
    \/ \E h \in Handlers : ConnectionLost(h)
    \/ \E h \in Handlers : ReceiveReturn(h)
    \/ \E c \in Calls : ReplyStart(c)
    \/ \E c \in Calls : ReplyLookup(c)
    \/ \E c \in Calls : ReplySend(c)
    \/ \E c \in Calls : ReplyClose(c)
    \/ \E c \in Calls : ReplyCloseEnd(c)
    \/ FatalThrow

Spec == Init /\ [][Next]_vars

\* The steps of one goroutine: an upgrade handler, a relay loop, a reply handler.
HandlerStep(h) == InsertEnd(h) \/ Spawn(h) \/ HandleReturn(h) \/ DeleteEnd(h)
ReplyStep(c) == ReplyLookup(c) \/ ReplySend(c) \/ ReplyClose(c) \/ ReplyCloseEnd(c)

\* Every goroutine that can take a step eventually takes one (the Go scheduler
\* runs every runnable goroutine); the clients, the backend and the runtime's
\* race detection are under no such obligation.
Fairness ==
    /\ \A h \in Handlers : WF_vars(HandlerStep(h)) /\ WF_vars(ReceiveReturn(h))
    /\ \A c \in Calls : WF_vars(ReplyStep(c))

FairSpec == Spec /\ Fairness

\* ------------------------------------------------- reply address (C11)

\* Texts are sequences of tokens: "/" and "://" separators, names, and the
\* path parameter ":id".
Schemes == {"http", "https"}
Hosts == {"gw:3000", "example.org"}
Prefixes == {<<"/", "reply">>, <<"/", "reply", "/">>, <<"/", "reply", "/", "/">>,
             <<"/", "callback">>, <<"/", "api", "/", "reply">>, <<"/">>}
IdText(i) == ToString(i)
NoMatch == ""

\* strings.TrimRight(s, "/")
RECURSIVE TrimRight(_)
TrimRight(s) ==
    IF Len(s) > 0 /\ s[Len(s)] = "/" THEN TrimRight(SubSeq(s, 1, Len(s) - 1)) ELSE s

\* Line 59: fmt.Sprintf("%s/:id", strings.TrimRight(replyPathPrefix, "/"))
ReplyPath(prefix) == TrimRight(prefix) \o <<"/", ":id">>

\* Line 89: fmt.Sprintf("%s://%s/reply/%s", c.Scheme(), c.Request().Host, id)
ReplyChannel(scheme, host, id) == <<scheme, "://", host, "/", "reply", "/", IdText(id)>>

\* The address the reply address format prescribes for a prefix.
FormatAddress(scheme, host, prefix, id) ==
    <<scheme, "://", host>> \o TrimRight(prefix) \o <<"/", IdText(id)>>

\* The path of a URL scheme://host/path.
URLPath(url) == SubSeq(url, 4, Len(url))

\* Line 61, es.POST(replyPath, s.send): the router gives the handler the
\* segment at ":id" when every other token of the path equals the route's.
RouteParam(route, path) ==
    IF /\ Len(route) = Len(path)
       /\ \A k \in 1..Len(route) :
            IF route[k] = ":id" THEN path[k] # "/" ELSE route[k] = path[k]
    THEN path[CHOOSE k \in 1..Len(route) : route[k] = ":id"]
    ELSE NoMatch

\* CreateServer(…, replyPathPrefix): the reply route is registered.
AddrCreateServer ==
    /\ addr.pc = "config"
    /\ addr' = [addr EXCEPT !.pc = "created", !.route = ReplyPath(addr.prefix)]
    /\ UNCHANGED <<sessions, sid, state, link, closes, written, hpc, rpc, inserts,
                   removals, calls, crashed, regop>>

\* An upgrade request: the session is given its reply address.
AddrUpgrade ==
    /\ addr.pc = "created"
    /\ \E scheme \in Schemes, host \in Hosts, id \in Ids :
         addr' = [addr EXCEPT !.pc = "upgraded", !.scheme = scheme, !.host = host,
                              !.id = id,
                              !.channel = ReplyChannel(scheme, host, id)]
    /\ UNCHANGED <<sessions, sid, state, link, closes, written, hpc, rpc, inserts,
                   removals, calls, crashed, regop>>

\* The backend posts to the advertised reply address.
AddrPost ==
    /\ addr.pc = "upgraded"
    /\ addr' = [addr EXCEPT !.pc = "posted",
                            !.hit = RouteParam(addr.route, URLPath(addr.channel))]
    /\ UNCHANGED <<sessions, sid, state, link, closes, written, hpc, rpc, inserts,
                   removals, calls, crashed, regop>>

AddrInit ==
    /\ ServerInit
    /\ regop = RegOff
    /\ \E prefix \in Prefixes :
         addr = [pc |-> "config", prefix |-> prefix, route |-> <<>>, scheme |-> "",
                 host |-> "", id |-> Nil, channel |-> <<>>, hit |-> NoMatch]

AddrNext == AddrCreateServer \/ AddrUpgrade \/ AddrPost

AddrSpec == AddrInit /\ [][AddrNext]_vars

\* -------------------------------------------- registry operations (C14)

\* Line 86 as the registry's Register: the assignment has no duplicate check
\* and no error result.  The session is a new object on every upgrade; the
\* identifier is whatever uuid.NewString() drew.
RegRegister ==
    /\ regop.made <= MaxSessions
    /\ \E id \in Ids :
         /\ sessions' = MapAssign(sessions, id, regop.made + 1)
         /\ regop' = [pc |-> "registered", id |-> id, obj |-> regop.made + 1,
                      prev |-> Lookup(sessions, id), err |-> "none",
                      made |-> regop.made + 1]
    /\ UNCHANGED <<sid, state, link, closes, written, hpc, rpc, inserts, removals,
                   calls, crashed, addr>>

\* Line 104 as the registry's Lookup.
RegLookup ==
    /\ \E id \in Ids :
         regop' = [regop EXCEPT !.pc = "looked", !.id = id,
                                !.obj = Lookup(sessions, id),
                                !.prev = Lookup(sessions, id)]
    /\ UNCHANGED <<sessions, sid, state, link, closes, written, hpc, rpc, inserts,
                   removals, calls, crashed, addr>>

\* Line 93 as the registry's Remove.
RegRemove ==
    /\ \E id \in Ids :
         /\ sessions' = MapDelete(sessions, id)
         /\ regop' = [regop EXCEPT !.pc = "removed", !.id = id, !.obj = Nil,
                                   !.prev = Lookup(sessions, id)]
    /\ UNCHANGED <<sid, state, link, closes, written, hpc, rpc, inserts, removals,
                   calls, crashed, addr>>

RegInit ==
    /\ ServerInit
    /\ addr = AddrOff
    /\ regop = [pc |-> "created", id |-> Nil, obj |-> Nil, prev |-> Nil,
                err |-> "none", made |-> 0]

RegNext == RegRegister \/ RegLookup \/ RegRemove

RegSpec == RegInit /\ [][RegNext]_vars

\* ================================================================ claims

\* The reply calls whose map read has completed.
LookedUpCalls == {c \in Calls : calls[c].pc \notin {"idle", "lookup", "exited"}}
FinishedCalls == {c \in Calls : calls[c].pc \in {"done", "panicked"}}
InRegistry(h) == sid[h] # Nil /\ sessions[sid[h]] = h

NotFoundResponse == [status |-> StatusNotFound, bodies |-> <<NotFoundBody>>]
OkResponse == [status |-> StatusOK, bodies |-> <<OkBody>>]
NoResponse == [status |-> 0, bodies |-> <<>>]

\* C1: a reply call whose identifier is not in the registry at lookup time is
\* answered by exactly one not-found response (404, success=false,
\* NOT_FOUND), whatever its body and header; success=true is never written.
C1_NotFoundOnly ==
    \A c \in FinishedCalls :
        calls[c].sess = Nil => calls[c].resp = NotFoundResponse

\* C2: a reply call whose identifier is not in the registry invokes neither
\* Send nor Close (in particular not on the nil session) and its handler
\* finishes normally.
C2_NotFoundNoEffect ==
    \A c \in LookedUpCalls :
        calls[c].sess = Nil =>
            /\ calls[c].sent = "no"
            /\ calls[c].closed = "no"
            /\ calls[c].pc # "panicked"

\* C3: a reply call whose identifier is found gets exactly one response, the
\* success acknowledgment (200, success=true), also when Send fails and when
\* Close returns an error; nothing else is ever written to it.
C3_FoundAcknowledged ==
    \A c \in LookedUpCalls :
        calls[c].sess # Nil =>
            /\ calls[c].pc # "panicked"
            /\ calls[c].pc = "done" => calls[c].resp = OkResponse
            /\ calls[c].pc # "done" => calls[c].resp = NoResponse

C3_Witness ==
    \E c \in Calls : /\ calls[c].pc = "done"
                     /\ calls[c].sess # Nil
                     /\ calls[c].sent = "failed"
                     /\ calls[c].closed = "err"

\* C4: every frame written to the connection of a session comes from a reply
\* call posted to the reply address of that session.
C4_NoCrossTalk ==
    \A h \in Handlers :
        \A k \in 1..Len(written[h]) : written[h][k].to = sid[h]

C4_Witness ==
    \E h, g \in Handlers : /\ h # g
                           /\ state[h] = "Open" /\ state[g] = "Open"
                           /\ Len(written[h]) > 0 /\ Len(written[g]) > 0

\* C5: a reply call that starts after its session was closed by the client's
\* disconnect finds no session, and Send is not invoked on the closed session.
C5_NoStaleDelivery ==
    \A c \in LookedUpCalls :
        calls[c].afterClosed => calls[c].sess = Nil /\ calls[c].sent \notin {"ok", "failed"}

\* C6: a session is in the registry if and only if it is Open or Closing.
C6_RegistryIffLive ==
    ~crashed => \A h \in Handlers : InRegistry(h) <=> state[h] \in {"Open", "Closing"}

Terminated(h) ==
    \E c \in LookedUpCalls : calls[c].sess = h /\ calls[c].term
Ended(h) == inserts[h] = 1 /\ (link[h] = "down" \/ Terminated(h))
Gone(h) == ~InRegistry(h) /\ (closes[h] > 0 \/ crashed)

C8_NoLeak == \A h \in Handlers : Ended(h) ~> Gone(h)

C8_Witness ==
    \E h \in Handlers : /\ ~crashed
                        /\ Ended(h) /\ Gone(h)
                        /\ \A c \in Calls : calls[c].pc \in {"send", "close", "closing"}

\* C9: once a reply call with the termination directive has been acknowledged
\* for an Open session, every lookup of that identifier that starts
\* afterwards finds no session.
C9_LookupAfterTerminationFails ==
    \A c \in LookedUpCalls : calls[c].afterTerm => calls[c].sess = Nil

\* C10: no two flows are inside the identifier-to-session map at the same
\* time with at least one of them writing.
C10_NoConcurrentMapAccess == ~Race

\* C11: the reply address given to a session is
\* <scheme>://<host>/<replyPathPrefix>/<id>, and its path is the path the
\* reply route is registered on: a POST to it reaches the reply handler with
\* that id.
C11_AdvertisedAddressIsRouted ==
    addr.pc = "posted" =>
        /\ addr.channel = FormatAddress(addr.scheme, addr.host, addr.prefix, addr.id)
        /\ addr.hit = IdText(addr.id)

\* C12: a reply call without the termination directive whose Send fails ends
\* acknowledged without invoking Close, and leaves the registry, every
\* lifecycle state and every handle as they were; a session leaves Open only
\* when its connection is over or a call carrying the directive closes it.
FailedSendStep(c) ==
    /\ calls[c].pc = "send"
    /\ ~calls[c].term
    /\ calls'[c].sent = "failed"

LeavesOpen(h) == state[h] = "Open" /\ state'[h] # "Open" /\ ~crashed'

C12_FailedSendKeepsSession ==
    [][/\ \A c \in Calls :
            FailedSendStep(c) =>
                /\ calls'[c].pc = "done"
                /\ calls'[c].closed = "no"
                /\ sessions' = sessions
                /\ state' = state
                /\ closes' = closes
       /\ \A h \in Handlers :
            LeavesOpen(h) =>
                \/ Over(h)
                \/ \E c \in Calls : /\ calls[c].pc = "close"
                                    /\ calls[c].term
                                    /\ calls[c].sess = h]_vars

C12_Witness ==
    \E c \in Calls : /\ calls[c].pc = "done"
                     /\ ~calls[c].term
                     /\ calls[c].sent = "failed"
                     /\ calls[c].closed = "no"
                     /\ InRegistry(calls[c].sess)
                     /\ state[calls[c].sess] = "Open"

\* C13: Close is idempotent: of all the Close() calls on one session and the
\* relay loop's own closure, at most one closes the handle; every other
\* Close() returns success as a no-op.
ClosingCalls(h) ==
    {c \in Calls : calls[c].sess = h /\ (calls[c].pc = "closing" \/ calls[c].closed \in {"ok", "err"})}

C13_CloseIdempotent ==
    \A h \in Handlers :
        /\ closes[h] <= 1
        /\ Cardinality(ClosingCalls(h)) <= 1
        /\ \A c \in Calls :
             calls[c].sess = h /\ calls[c].closed = "noop" =>
                 /\ calls[c].pc = "done"
                 /\ state[h] # "Open"

C13_Witness ==
    \E c, d \in Calls : /\ c # d
                        /\ calls[c].sess # Nil
                        /\ calls[c].sess = calls[d].sess
                        /\ calls[c].closed \in {"ok", "err"}
                        /\ calls[d].closed = "noop"
                        /\ closes[calls[c].sess] = 1

\* C14: registering a session under an identifier that is already present
\* fails with DuplicateId and leaves the existing entry in place.
C14_DuplicateRejected ==
    regop.pc = "registered" /\ regop.prev # Nil =>
        /\ regop.err = "DuplicateId"
        /\ sessions[regop.id] = regop.prev

\* C15: a step of the reply handler for session X, failing or not, leaves
\* the lifecycle state, the connection and the registry entry of every other
\* session as they were, and a failing step (X not found, Send failed, Close
\* returned an error) does not stop the gateway.
OtherSessionsUntouched(id) ==
    \A h \in Handlers :
        sid[h] # id =>
            /\ state'[h] = state[h]
            /\ link'[h] = link[h]
            /\ closes'[h] = closes[h]
            /\ written'[h] = written[h]
            /\ sid[h] # Nil => sessions'[sid[h]] = sessions[sid[h]]

FailingStep(c) ==
    /\ calls'[c] # calls[c]
    /\ \/ calls'[c].pc = "panicked"
       \/ calls'[c].resp.status = StatusNotFound
       \/ calls'[c].sent = "failed"
       \/ calls'[c].closed = "err"

C15_SessionIsolation ==
    [][\A c \in Calls :
          /\ calls'[c] # calls[c] /\ ~crashed' => OtherSessionsUntouched(calls'[c].id)
          /\ FailingStep(c) => ~crashed' /\ hpc' = hpc /\ rpc' = rpc]_vars

C15_Witness ==
    \E c, d \in Calls, h \in Handlers :
        /\ c < d
        /\ calls[c].pc = "panicked"
        /\ calls[d].pc = "done" /\ calls[d].sent = "ok" /\ calls[d].sess = h
        /\ calls[c].id # calls[d].id
        /\ state[h] = "Open" /\ InRegistry(h)

\* C16: in a reply call for a found session with a non-empty body and the
\* termination directive, Send(body) comes before Close(): Close is not
\* entered before Send has returned.
BothCalls ==
    {c \in LookedUpCalls : calls[c].sess # Nil /\ Len(calls[c].body) > 0 /\ calls[c].term}

C16_SendBeforeClose ==
    \A c \in BothCalls :
        /\ calls[c].pc = "send" => calls[c].sent = "no" /\ calls[c].closed = "no"
        /\ calls[c].pc \in {"close", "closing", "done"} => calls[c].sent \in {"ok", "failed"}
        /\ calls[c].pc = "done" => calls[c].closed # "no"

C16_Witness ==
    \E c \in BothCalls : /\ calls[c].pc = "done"
                         /\ calls[c].sent = "ok"
                         /\ calls[c].closed = "ok"
                         /\ Len(written[calls[c].sess]) = 1
                         /\ state[calls[c].sess] = "Closed"

\* C17: a reply call with an empty body never invokes Send and writes no
\* frame, with or without the termination directive; a reply call with a
\* non-empty body for a found session invokes Send exactly once.
OkSends(h) == {c \in Calls : calls[c].sess = h /\ calls[c].sent = "ok"}

C17_SendIffBody ==
    /\ \A c \in Calls : Len(calls[c].body) = 0 => calls[c].sent = "no"
    /\ \A c \in FinishedCalls :
         calls[c].sess # Nil /\ Len(calls[c].body) > 0 => calls[c].sent \in {"ok", "failed"}
    /\ \A h \in Handlers : Len(written[h]) = Cardinality(OkSends(h))

C17_Witness ==
    \E c, d \in Calls : /\ calls[c].pc = "done" /\ calls[d].pc = "done"
                        /\ calls[c].sess # Nil /\ calls[d].sess = calls[c].sess
                        /\ Len(calls[c].body) = 0 /\ calls[c].term
                        /\ calls[c].closed = "ok"
                        /\ calls[d].sent = "ok"
                        /\ Len(written[calls[c].sess]) = 1

\* C18: in the upgrade handler the session is inserted fully constructed,
\* then Receive() is started, then the connection is served; the entry is
\* removed only after serving has returned, so never before the relay loop
\* was started, and no lookup returns a session that is not constructed.
C18_UpgradeOrder ==
    ~crashed =>
        /\ \A h \in Handlers :
             /\ InRegistry(h) => state[h] # "None"
             /\ rpc[h] # "none" => inserts[h] = 1
             /\ hpc[h] \in {"serving", "deleting", "done"} => rpc[h] # "none"
             /\ removals[h] > 0 => hpc[h] = "done" /\ rpc[h] # "none"
             /\ hpc[h] \in {"idle", "inserting", "reading"} => rpc[h] = "none" /\ removals[h] = 0
        /\ \A c \in LookedUpCalls :
             calls[c].sess # Nil => state[calls[c].sess] # "None"

C18_Witness ==
    \E h \in Handlers, c \in Calls :
        /\ hpc[h] = "done" /\ removals[h] = 1 /\ rpc[h] = "returned"
        /\ calls[c].sess = h /\ calls[c].pc = "done"

====
